---- MODULE Spec2Model ----
(***************************************************************************)
(* GPS-verified check-in / check-out of ConstruX (FOPE backend).           *)
(*                                                                         *)
(* The model follows src/src/backend/routes/checkins.js and the checkins / *)
(* projects / workers tables of the database schema (src/unnamed/part_000).*)
(* Every `await query(...)` of a handler is one atomic step: the statement *)
(* runs at the database and the handler's synchronous code up to the next  *)
(* await runs with it.  Handlers of different requests interleave between  *)
(* their queries, as they do on the Node event loop.                       *)
(*                                                                         *)
(* Units: coordinates are integers in micro-degrees, distances are kept in *)
(* decimetres (DistScale per metre), the clock counts seconds, hours are   *)
(* kept in hundredths (the two decimals of toFixed(2) / DECIMAL(5,2)).     *)
(***************************************************************************)
EXTENDS Integers, Sequences, FiniteSets, TLC

\* SQL NULL, and a JSON field that is absent from the request body.
NULL == -999999999

\* ------------------------------------------------------------------ bounds
\* Number of requests that can be in flight at the same time.
MaxReq == 2
\* Total number of requests issued in one behaviour.
MaxIssued == 3
\* Number of times the clock advances in one behaviour.
MaxTicks == 1

Req == 1..MaxReq

\* ------------------------------------------------------------ fixed tables
\* users that send requests; user 3 has no row in workers.
Users == {1, 2, 3}

\* SELECT id FROM workers WHERE user_id = u
WorkerRows(u) == IF u \in {1, 2} THEN <<[id |-> 10 + u]>> ELSE <<>>

\* The sample site of the schema: 30.2672, -97.7431.
SiteLat == 30267200
SiteLng == -97743100

\* projects(id, gps_latitude, gps_longitude, geofence_radius_meters)
Projects ==
  [p \in {1, 2, 3, 4, 5, 6} |->
     CASE p = 1 -> [gps_latitude |-> SiteLat, gps_longitude |-> SiteLng,
                    geofence_radius_meters |-> 50]
       [] p = 2 -> [gps_latitude |-> NULL, gps_longitude |-> NULL,
                    geofence_radius_meters |-> 50]
       [] p = 3 -> [gps_latitude |-> SiteLat, gps_longitude |-> SiteLng,
                    geofence_radius_meters |-> NULL]
       [] p = 4 -> [gps_latitude |-> SiteLat, gps_longitude |-> NULL,
                    geofence_radius_meters |-> NULL]
       [] p = 5 -> [gps_latitude |-> SiteLat, gps_longitude |-> SiteLng,
                    geofence_radius_meters |-> 500]
       [] p = 6 -> [gps_latitude |-> SiteLat, gps_longitude |-> SiteLng,
                    geofence_radius_meters |-> 1]]

\* SELECT ... FROM projects WHERE id = p
ProjectRows(p) == IF p \in DOMAIN Projects THEN <<Projects[p]>> ELSE <<>>

\* ---------------------------------------------------------- JS primitives
\* !v of JavaScript for the values a body field takes here: absent, null and
\* the number 0 are falsy.
Falsy(v) == v = NULL \/ v = 0

\* v || null
OrNull(v) == IF Falsy(v) THEN NULL ELSE v

\* A column of the projects row is truthy when it is not NULL (node-postgres
\* hands DECIMAL columns over as non-empty strings).
ColumnSet(v) == v # NULL

\* n / d rounded to the nearest integer, halves away from zero; the same for
\* n and -n, as floating-point multiplication and division are.
DivRound(n, d) ==
  IF n >= 0 THEN (2 * n + d) \div (2 * d) ELSE -((2 * (-n) + d) \div (2 * d))

RECURSIVE SqrtSearch(_, _, _)
SqrtSearch(n, lo, hi) ==
  IF lo >= hi THEN lo
  ELSE LET mid == (lo + hi + 1) \div 2
       IN  IF mid * mid <= n THEN SqrtSearch(n, mid, hi)
           ELSE SqrtSearch(n, lo, mid - 1)

\* Math.sqrt on the integers: the largest r with r * r <= n.
Sqrt(n) == SqrtSearch(n, 0, 46340)

\* Math.round of a non-negative quantity kept in 1/scale units.
MathRound(x, scale) == (2 * x + scale) \div (2 * scale)

\* --------------------------------------------------------- GeoDistance
\* Earth's radius in metres.
EarthRadius == 6371000

\* (x * Math.PI) / 180 for an angle of x micro-degrees, in units of 1e-8 rad.
ToRadians(x) == DivRound(x * 17453, 10000)

\* Math.cos of a latitude given in micro-degrees, in units of 1e-4; the
\* series 1 - x^2/2 + x^4/24 - x^6/720 with x in units of 1e-4 rad.
Cos(lat) ==
  LET x  == DivRound(DivRound(lat, 1000) * 17453, 100000)
      x2 == DivRound(x * x, 10000)
      x4 == DivRound(x2 * x2, 10000)
      x6 == DivRound(x4 * x2, 10000)
  IN  10000 - DivRound(x2, 2) + DivRound(x4, 24) - DivRound(x6, 720)

\* (Math.cos(phi1) taken twice, Math.cos(phi2) never)
calculateDistance_FirstLatitude(lat1, lon1, lat2, lon2) ==
  LET dPhi    == ToRadians(lat2 - lat1)
      dLambda == ToRadians(lon2 - lon1)
      a       == dPhi * dPhi
                 + DivRound(dLambda * Cos(lat1), 10000)
                   * DivRound(dLambda * Cos(lat1), 10000)
      c       == Sqrt(a)
  IN  DivRound((EarthRadius \div 1000) * c, 10000)

\* (the central angle never taken below the resolution of a GPS fix)
calculateDistance_Floor(lat1, lon1, lat2, lon2) ==
  LET dPhi    == ToRadians(lat2 - lat1)
      dLambda == ToRadians(lon2 - lon1)
      a       == dPhi * dPhi
                 + DivRound(dLambda * Cos(lat1), 10000)
                   * DivRound(dLambda * Cos(lat2), 10000)
      c       == Sqrt(a) + 24
  IN  DivRound((EarthRadius \div 1000) * c, 10000)

\* calculateDistance(lat1, lon1, lat2, lon2), in decimetres.  For points a
\* few kilometres apart sin(t/2) is t/2 and 2*atan2(sqrt(a), sqrt(1-a)) is
\* 2*sqrt(a) well below the resolution kept here, so c is computed as
\* sqrt(dPhi^2 + cos(phi1)*cos(phi2)*dLambda^2), in units of 1e-8 rad.
calculateDistance(lat1, lon1, lat2, lon2) ==
  LET dPhi    == ToRadians(lat2 - lat1)
      dLambda == ToRadians(lon2 - lon1)
      a       == dPhi * dPhi
                 + DivRound(dLambda * Cos(lat1), 10000)
                   * DivRound(dLambda * Cos(lat2), 10000)
      c       == Sqrt(a)
  IN  DivRound((EarthRadius \div 1000) * c, 10000)

\* Radius used when the project row has none.
DefaultRadius == 100

\* (the radius of the project row ignored)
MaxDistanceOf_Default(project) == DefaultRadius

\* project.geofence_radius_meters || 100
MaxDistanceOf(project) ==
  IF Falsy(project.geofence_radius_meters) THEN DefaultRadius
  ELSE project.geofence_radius_meters

\* if (project.gps_latitude && project.gps_longitude)
HasLocation(project) ==
  ColumnSet(project.gps_latitude) /\ ColumnSet(project.gps_longitude)

\* (distance >= maxDistance)
OutsideGeofence_Exclusive(distance, maxDistance) == distance >= maxDistance * 10

\* distance > maxDistance, the distance in decimetres and the radius in metres
OutsideGeofence(distance, maxDistance) == distance > maxDistance * 10

\* ------------------------------------------------------------ state
VARIABLES
  checkins,   \* the checkins table, in insertion order; the id is the index
  now,        \* the wall clock, in seconds
  ticks,      \* how many times the clock advanced
  issued,     \* how many requests were received
  req         \* the request each slot is handling, with the handler's locals

vars == <<checkins, now, ticks, issued, req>>

\* A slot with no request.
IdleReq ==
  [pc |-> "idle", kind |-> "none", user |-> 0,
   projectId |-> NULL, gpsLat |-> NULL, gpsLng |-> NULL, photoUrl |-> NULL,
   scheduledTime |-> NULL, notes |-> NULL,
   workerId |-> NULL, isLate |-> FALSE, checkin |-> NULL, elapsed |-> NULL,
   seen |-> 0,
   fProject |-> NULL, fWorker |-> NULL, startDate |-> NULL, endDate |-> NULL,
   status |-> 0, error |-> "", id |-> NULL,
   distance |-> NULL, maxDistance |-> NULL, hoursWorked |-> NULL,
   rows |-> <<>>, active |-> FALSE]

Init ==
  /\ checkins = <<>>
  /\ now = 0
  /\ ticks = 0
  /\ issued = 0
  /\ req = [r \in Req |-> IdleReq]

\* res.status(s).json({error: e}) and the end of the handler: the body and
\* the locals go out of scope, what stays is whose request it was, which
\* rows it looked at, and the response.
Respond(r, s, e) ==
  [IdleReq EXCEPT !.pc = "done", !.kind = req[r].kind, !.user = req[r].user,
                  !.projectId = req[r].projectId,
                  !.workerId = req[r].workerId, !.checkin = req[r].checkin,
                  !.seen = req[r].seen, !.status = s, !.error = e]

\* (WHERE checkout_time IS NULL, the worker left out)
OpenIds_AnyWorker(w) ==
  {i \in 1..Len(checkins) : checkins[i].checkout_time = NULL}

\* (WHERE worker_id = w, closed shifts too)
OpenIds_Closed(w) ==
  {i \in 1..Len(checkins) : checkins[i].worker_id = w}

\* ids of the rows WHERE worker_id = w AND checkout_time IS NULL
OpenIds(w) ==
  {i \in 1..Len(checkins) :
     checkins[i].worker_id = w /\ checkins[i].checkout_time = NULL}

\* (WHERE worker_id = w ORDER BY checkin_time DESC LIMIT 1, closed rows too)
LatestOpenIds_AnyStatus(w) ==
  LET mine == {i \in 1..Len(checkins) : checkins[i].worker_id = w}
  IN  {i \in mine :
         \A j \in mine : checkins[j].checkin_time <= checkins[i].checkin_time}

\* ... ORDER BY checkin_time DESC LIMIT 1: the ids that query can return
LatestOpenIds(w) ==
  {i \in OpenIds(w) :
     \A j \in OpenIds(w) : checkins[j].checkin_time <= checkins[i].checkin_time}

\* A new request is handled in the first slot that has none.
FirstFree(r) ==
  /\ req[r].pc = "idle"
  /\ \A r2 \in Req : r2 < r => req[r2].pc # "idle"

\* ------------------------------------------------------ POST /checkin
\* The request arrives with its body; the required fields are checked.
CheckinReceive(r, u, p, lat, lng, photo, sched) ==
  /\ FirstFree(r)
  /\ issued < MaxIssued
  /\ issued' = issued + 1
  /\ LET q == [IdleReq EXCEPT !.kind = "checkin", !.user = u,
                 !.projectId = p, !.gpsLat = lat, !.gpsLng = lng,
                 !.photoUrl = photo, !.scheduledTime = sched]
     IN  req' = [req EXCEPT ![r] =
           IF Falsy(p) \/ Falsy(lat) \/ Falsy(lng)
           THEN [IdleReq EXCEPT !.pc = "done", !.kind = "checkin", !.user = u,
                  !.projectId = p, !.status = 400,
                  !.error = "Project ID, GPS latitude, and GPS longitude are required"]
           ELSE [q EXCEPT !.pc = "ci_worker"]]
  /\ UNCHANGED <<checkins, now, ticks>>

\* SELECT id FROM workers WHERE user_id = req.user.id
CheckinWorker(r) ==
  /\ req[r].pc = "ci_worker"
  /\ LET rows == WorkerRows(req[r].user)
     IN  req' = [req EXCEPT ![r] =
           IF Len(rows) = 0
           THEN Respond(r, 404, "Worker profile not found")
           ELSE [req[r] EXCEPT !.pc = "ci_project", !.workerId = rows[1].id]]
  /\ UNCHANGED <<checkins, now, ticks, issued>>

\* (a project without coordinates tested against the sample site)
Geofence_DefaultSite(r, project) ==
  LET lat == IF ColumnSet(project.gps_latitude) THEN project.gps_latitude ELSE SiteLat
      lng == IF ColumnSet(project.gps_longitude) THEN project.gps_longitude ELSE SiteLng
      distance    == calculateDistance(req[r].gpsLat, req[r].gpsLng, lat, lng)
      maxDistance == MaxDistanceOf(project)
  IN  IF OutsideGeofence(distance, maxDistance)
      THEN [Respond(r, 403, "Check-in location outside geofence")
              EXCEPT !.distance = MathRound(distance, 10),
                     !.maxDistance = maxDistance]
      ELSE [req[r] EXCEPT !.pc = "ci_active"]

\* The geofence test on the project row: the response of a rejected
\* check-in, or the request moved on to the open-shift query.
Geofence(r, project) ==
  LET distance    == calculateDistance(req[r].gpsLat, req[r].gpsLng,
                                       project.gps_latitude, project.gps_longitude)
      maxDistance == MaxDistanceOf(project)
  IN  IF HasLocation(project) /\ OutsideGeofence(distance, maxDistance)
      THEN [Respond(r, 403, "Check-in location outside geofence")
              EXCEPT !.distance = MathRound(distance, 10),
                     !.maxDistance = maxDistance]
      ELSE [req[r] EXCEPT !.pc = "ci_active"]

\* (the open-shift test made before the geofence test)
CheckinProject_OpenFirst(r) ==
  /\ req[r].pc = "ci_project"
  /\ LET rows == ProjectRows(req[r].projectId)
         open == OpenIds(req[r].workerId)
     IN  \E i \in open \cup {NULL} :
           /\ i = NULL <=> (open = {} \/ Len(rows) = 0)
           /\ req' = [req EXCEPT ![r] =
                IF Len(rows) = 0
                THEN Respond(r, 404, "Project not found")
                ELSE IF i # NULL
                THEN [Respond(r, 409, "Already checked in") EXCEPT !.id = i]
                ELSE Geofence(r, rows[1])]
  /\ UNCHANGED <<checkins, now, ticks, issued>>

\* SELECT gps_latitude, gps_longitude, geofence_radius_meters FROM projects
\* WHERE id = projectId, then the geofence test.
CheckinProject(r) ==
  /\ req[r].pc = "ci_project"
  /\ LET rows == ProjectRows(req[r].projectId)
     IN  req' = [req EXCEPT ![r] =
           IF Len(rows) = 0
           THEN Respond(r, 404, "Project not found")
           ELSE Geofence(r, rows[1])]
  /\ UNCHANGED <<checkins, now, ticks, issued>>

\* (now >= scheduled)
IsLate_Inclusive(sched, t) == IF Falsy(sched) THEN FALSE ELSE t >= sched

\* isLate: now > scheduled, only when a scheduledTime was given
IsLate(sched, t) == IF Falsy(sched) THEN FALSE ELSE t > sched

\* SELECT id FROM checkins WHERE worker_id = w AND checkout_time IS NULL,
\* then the lateness flag from the handler's own reading of the clock.
CheckinActive(r) ==
  /\ req[r].pc = "ci_active"
  /\ LET open == OpenIds(req[r].workerId)
     IN  IF open # {}
         THEN \E i \in open :
                req' = [req EXCEPT ![r] =
                  [Respond(r, 409, "Already checked in") EXCEPT !.id = i]]
         ELSE req' = [req EXCEPT ![r] =
                  [req[r] EXCEPT !.pc = "ci_insert",
                                 !.isLate = IsLate(req[r].scheduledTime, now),
                                 !.seen = Len(checkins)]]
  /\ UNCHANGED <<checkins, now, ticks, issued>>

\* (the row is created with checkout_time = NOW() as well)
NewRow_Closed(id, q, t) ==
  [id |-> id, worker_id |-> q.workerId, project_id |-> q.projectId,
   checkin_time |-> t, checkout_time |-> t,
   checkin_gps_lat |-> q.gpsLat, checkin_gps_lng |-> q.gpsLng,
   checkout_gps_lat |-> NULL, checkout_gps_lng |-> NULL,
   checkin_photo_url |-> OrNull(q.photoUrl), checkout_photo_url |-> NULL,
   is_late |-> q.isLate, hours_worked |-> NULL, notes |-> NULL]

\* The row INSERT INTO checkins ... VALUES ($1, $2, NOW(), $3, $4, $5, $6)
\* creates.
NewRow(id, q, t) ==
  [id |-> id, worker_id |-> q.workerId, project_id |-> q.projectId,
   checkin_time |-> t, checkout_time |-> NULL,
   checkin_gps_lat |-> q.gpsLat, checkin_gps_lng |-> q.gpsLng,
   checkout_gps_lat |-> NULL, checkout_gps_lng |-> NULL,
   checkin_photo_url |-> OrNull(q.photoUrl), checkout_photo_url |-> NULL,
   is_late |-> q.isLate, hours_worked |-> NULL, notes |-> NULL]

\* INSERT INTO checkins ... RETURNING *, answered with 201.
CheckinInsert(r) ==
  /\ req[r].pc = "ci_insert"
  /\ checkins' = Append(checkins, NewRow(Len(checkins) + 1, req[r], now))
  /\ req' = [req EXCEPT ![r] =
       [Respond(r, 201, "") EXCEPT !.id = Len(checkins) + 1]]
  /\ UNCHANGED <<now, ticks, issued>>

\* ----------------------------------------------------- POST /checkout
CheckoutReceive(r, u, lat, lng, photo, notes) ==
  /\ FirstFree(r)
  /\ issued < MaxIssued
  /\ issued' = issued + 1
  /\ LET q == [IdleReq EXCEPT !.kind = "checkout", !.user = u,
                 !.gpsLat = lat, !.gpsLng = lng,
                 !.photoUrl = photo, !.notes = notes]
     IN  req' = [req EXCEPT ![r] =
           IF Falsy(lat) \/ Falsy(lng)
           THEN [IdleReq EXCEPT !.pc = "done", !.kind = "checkout", !.user = u,
                  !.status = 400,
                  !.error = "GPS latitude and longitude are required"]
           ELSE [q EXCEPT !.pc = "co_worker"]]
  /\ UNCHANGED <<checkins, now, ticks>>

\* SELECT id FROM workers WHERE user_id = req.user.id
CheckoutWorker(r) ==
  /\ req[r].pc = "co_worker"
  /\ LET rows == WorkerRows(req[r].user)
     IN  req' = [req EXCEPT ![r] =
           IF Len(rows) = 0
           THEN Respond(r, 404, "Worker profile not found")
           ELSE [req[r] EXCEPT !.pc = "co_active", !.workerId = rows[1].id]]
  /\ UNCHANGED <<checkins, now, ticks, issued>>

\* (the geofence test of check-in repeated on the reported check-out point)
CheckoutActive_Geofenced(r) ==
  /\ req[r].pc = "co_active"
  /\ LET rows == LatestOpenIds(req[r].workerId)
     IN  IF rows = {}
         THEN req' = [req EXCEPT ![r] =
                Respond(r, 404, "No active check-in found")]
         ELSE \E i \in rows :
                LET project == Projects[checkins[i].project_id]
                    distance == calculateDistance(req[r].gpsLat, req[r].gpsLng,
                                  project.gps_latitude, project.gps_longitude)
                IN  req' = [req EXCEPT ![r] =
                      IF OutsideGeofence(distance, MaxDistanceOf(project))
                      THEN Respond(r, 403, "Outside geofence")
                      ELSE [req[r] EXCEPT !.pc = "co_update", !.checkin = i,
                              !.elapsed = now - checkins[i].checkin_time]]
  /\ UNCHANGED <<checkins, now, ticks, issued>>

\* SELECT * FROM checkins WHERE worker_id = w AND checkout_time IS NULL
\* ORDER BY checkin_time DESC LIMIT 1, then checkoutTime - checkinTime from
\* the handler's own reading of the clock.
CheckoutActive(r) ==
  /\ req[r].pc = "co_active"
  /\ LET rows == LatestOpenIds(req[r].workerId)
     IN  IF rows = {}
         THEN req' = [req EXCEPT ![r] =
                Respond(r, 404, "No active check-in found")]
         ELSE \E i \in rows :
                req' = [req EXCEPT ![r] =
                  [req[r] EXCEPT !.pc = "co_update", !.checkin = i,
                                 !.elapsed = now - checkins[i].checkin_time]]
  /\ UNCHANGED <<checkins, now, ticks, issued>>

\* A duration of 36 k + 18 seconds is half-way between two hundredths of an
\* hour. Of those a run can measure (18, 54, 90, 126, 162, 9018, 9054,
\* 18018, 18054, 36018) these are the ones whose double s / 3600 lies above
\* the half-way point.
TiesUp == {18, 90, 126, 9054, 36018}

\* hoursWorked.toFixed(2) of a duration of s seconds, in hundredths of an
\* hour: the hundredth nearest to the double s / 3600.
ToFixed2(s) ==
  IF s % 36 = 18 THEN (IF s \in TiesUp THEN s \div 36 + 1 ELSE s \div 36)
  ELSE (s + 18) \div 36

\* The largest value a DECIMAL(5,2) column holds, in hundredths.
MaxHours == 99999

\* (checkout_time toggled: a second UPDATE of the row clears it)
ClosedRow_Toggle(row, q, t) ==
  [row EXCEPT !.checkout_time = IF row.checkout_time = NULL THEN t ELSE NULL,
              !.checkout_gps_lat = q.gpsLat, !.checkout_gps_lng = q.gpsLng,
              !.checkout_photo_url = OrNull(q.photoUrl),
              !.hours_worked = ToFixed2(q.elapsed),
              !.notes = OrNull(q.notes)]

\* (the UPDATE stamps checkin_time and the check-in point as well)
ClosedRow_Restamp(row, q, t) ==
  [row EXCEPT !.checkin_time = t, !.checkout_time = t,
              !.checkin_gps_lat = q.gpsLat, !.checkin_gps_lng = q.gpsLng,
              !.checkout_gps_lat = q.gpsLat, !.checkout_gps_lng = q.gpsLng,
              !.checkout_photo_url = OrNull(q.photoUrl),
              !.hours_worked = ToFixed2(q.elapsed),
              !.notes = OrNull(q.notes)]

\* The row after UPDATE checkins SET checkout_time = NOW(), ... WHERE id = $6
ClosedRow(row, q, t) ==
  [row EXCEPT !.checkout_time = t,
              !.checkout_gps_lat = q.gpsLat, !.checkout_gps_lng = q.gpsLng,
              !.checkout_photo_url = OrNull(q.photoUrl),
              !.hours_worked = ToFixed2(q.elapsed),
              !.notes = OrNull(q.notes)]

\* UPDATE checkins SET ... WHERE id = checkin.id RETURNING *, answered with
\* 200; a value that does not fit hours_worked makes the statement fail.
CheckoutUpdate(r) ==
  /\ req[r].pc = "co_update"
  /\ LET i == req[r].checkin
     IN  IF ToFixed2(req[r].elapsed) > MaxHours
         THEN /\ req' = [req EXCEPT ![r] = Respond(r, 500, "Check-out failed")]
              /\ UNCHANGED checkins
         ELSE /\ checkins' = [checkins EXCEPT ![i] = ClosedRow(@, req[r], now)]
              /\ req' = [req EXCEPT ![r] =
                   [Respond(r, 200, "") EXCEPT !.id = i,
                      !.hoursWorked = ToFixed2(req[r].elapsed)]]
  /\ UNCHANGED <<now, ticks, issued>>

\* ------------------------------------------------------------- GET /
\* The request arrives with its query string: projectId, workerId,
\* startDate, endDate, each of them optional.
ListReceive(r, fp, fw, sd, ed) ==
  /\ FirstFree(r)
  /\ issued < MaxIssued
  /\ issued' = issued + 1
  /\ req' = [req EXCEPT ![r] =
       [IdleReq EXCEPT !.pc = "ls_query", !.kind = "list",
                       !.fProject = fp, !.fWorker = fw,
                       !.startDate = sd, !.endDate = ed]]
  /\ UNCHANGED <<checkins, now, ticks>>

\* WHERE 1=1 and one AND per filter that is present
Matches(row, q) ==
  /\ Falsy(q.fProject) \/ row.project_id = q.fProject
  /\ Falsy(q.fWorker) \/ row.worker_id = q.fWorker
  /\ Falsy(q.startDate) \/ row.checkin_time >= q.startDate
  /\ Falsy(q.endDate) \/ row.checkin_time <= q.endDate

\* (ORDER BY c.checkin_time ASC)
MostRecentFirst_Ascending(s) ==
  \A i \in 1..(Len(s) - 1) :
    checkins[s[i]].checkin_time <= checkins[s[i + 1]].checkin_time

\* ORDER BY c.checkin_time DESC, for a sequence of ids; rows of the same
\* checkin_time come in any order.
MostRecentFirst(s) ==
  \A i \in 1..(Len(s) - 1) :
    checkins[s[i]].checkin_time >= checkins[s[i + 1]].checkin_time

\* LIMIT 100
ListLimit == 100

\* The SELECT of the listing, answered with its rows.  Every row of the
\* ledger has its worker and its project (foreign keys), so the two JOINs
\* drop none.
ListQuery(r) ==
  /\ req[r].pc = "ls_query"
  /\ LET ids == {i \in 1..Len(checkins) : Matches(checkins[i], req[r])}
         n   == IF Cardinality(ids) < ListLimit THEN Cardinality(ids)
                ELSE ListLimit
     IN  \E s \in [1..n -> ids] :
           /\ \A i, j \in 1..n : i # j => s[i] # s[j]
           /\ MostRecentFirst(s)
           /\ \A k \in ids \ {s[i] : i \in 1..n} :
                \A i \in 1..n :
                  checkins[k].checkin_time <= checkins[s[i]].checkin_time
           /\ req' = [req EXCEPT ![r] =
                [Respond(r, 200, "") EXCEPT !.rows = s]]
  /\ UNCHANGED <<checkins, now, ticks, issued>>

\* ------------------------------------------------------- GET /active
ActiveReceive(r, u) ==
  /\ FirstFree(r)
  /\ issued < MaxIssued
  /\ issued' = issued + 1
  /\ req' = [req EXCEPT ![r] =
       [IdleReq EXCEPT !.pc = "ac_worker", !.kind = "active", !.user = u]]
  /\ UNCHANGED <<checkins, now, ticks>>

\* SELECT id FROM workers WHERE user_id = req.user.id
ActiveWorker(r) ==
  /\ req[r].pc = "ac_worker"
  /\ LET rows == WorkerRows(req[r].user)
     IN  req' = [req EXCEPT ![r] =
           IF Len(rows) = 0
           THEN Respond(r, 404, "Worker profile not found")
           ELSE [req[r] EXCEPT !.pc = "ac_query", !.workerId = rows[1].id]]
  /\ UNCHANGED <<checkins, now, ticks, issued>>

\* SELECT ... WHERE c.worker_id = $1 AND c.checkout_time IS NULL
\* ORDER BY c.checkin_time DESC LIMIT 1, answered with active and checkin.
ActiveQuery(r) ==
  /\ req[r].pc = "ac_query"
  /\ LET rows == LatestOpenIds(req[r].workerId)
     IN  IF rows = {}
         THEN req' = [req EXCEPT ![r] = Respond(r, 200, "")]
         ELSE \E i \in rows :
                req' = [req EXCEPT ![r] =
                  [Respond(r, 200, "") EXCEPT !.active = TRUE, !.id = i]]
  /\ UNCHANGED <<checkins, now, ticks, issued>>

\* The query of a reading handler rejects: its catch block answers 500.
ReadFails(r) ==
  /\ req[r].pc \in {"ls_query", "ac_worker", "ac_query"}
  /\ req' = [req EXCEPT ![r] =
       Respond(r, 500, IF req[r].kind = "list" THEN "Failed to get check-ins"
                       ELSE "Failed to get active check-in")]
  /\ UNCHANGED <<checkins, now, ticks, issued>>

\* ------------------------------------------------------------ the rest
\* (the rejection is not caught: the request is left without a response)
QueryFails_Escapes(r) ==
  /\ req[r].pc \in {"ci_worker", "ci_project", "ci_active", "ci_insert",
                    "co_worker", "co_active", "co_update"}
  /\ req' = [req EXCEPT ![r].pc = "rejected"]
  /\ UNCHANGED <<checkins, now, ticks, issued>>

\* (checkout_time written by a statement of its own before the failing one)
QueryFails_Partial(r) ==
  /\ req[r].pc \in {"ci_worker", "ci_project", "ci_active", "ci_insert",
                    "co_worker", "co_active", "co_update"}
  /\ req' = [req EXCEPT ![r] =
       Respond(r, 500, IF req[r].kind = "checkin" THEN "Check-in failed"
                       ELSE "Check-out failed")]
  /\ checkins' = IF req[r].pc = "co_update"
                 THEN [checkins EXCEPT ![req[r].checkin].checkout_time = now]
                 ELSE checkins
  /\ UNCHANGED <<now, ticks, issued>>

\* A query rejects (connection lost, statement error): the catch block
\* answers 500.
QueryFails(r) ==
  /\ req[r].pc \in {"ci_worker", "ci_project", "ci_active", "ci_insert",
                    "co_worker", "co_active", "co_update"}
  /\ req' = [req EXCEPT ![r] =
       Respond(r, 500, IF req[r].kind = "checkin" THEN "Check-in failed"
                       ELSE "Check-out failed")]
  /\ UNCHANGED <<checkins, now, ticks, issued>>

\* The response has been sent; the slot takes the next request.
Finish(r) ==
  /\ req[r].pc = "done"
  /\ req' = [req EXCEPT ![r] = IdleReq]
  /\ UNCHANGED <<checkins, now, ticks, issued>>

\* Time passes.
Tick(d) ==
  /\ ticks < MaxTicks
  /\ now' = now + d
  /\ ticks' = ticks + 1
  /\ UNCHANGED <<checkins, issued, req>>

\* ------------------------------------------------------ request bodies
\* Reported points: the site itself, 50.0 m and 50.3 m north of it, 100.0 m
\* away, and about 500 m away.
PointAtSite == <<SiteLat, SiteLng>>
PointAt50   == <<SiteLat + 450, SiteLng>>
PointOver50 == <<SiteLat + 452, SiteLng>>
PointAt100  == <<SiteLat + 899, SiteLng>>
PointFar    == <<SiteLat + 4496, SiteLng + 100>>

Points == {PointAtSite, PointAt50, PointOver50, PointAt100, PointFar}

\* Bodies with gpsLat 0 and with gpsLng absent.
BadPoints == {<<0, SiteLng>>, <<SiteLat, NULL>>}

\* The users of the interleaving specification, both with a worker profile:
\* they are numbered in the order of their first request.
RaceUsers == IF issued = 0 THEN {1} ELSE {1, 2}

Next ==
  \/ \E r \in Req, u \in RaceUsers :
       CheckinReceive(r, u, 1, PointAt50[1], PointAt50[2], NULL, NULL)
  \/ \E r \in Req : CheckinWorker(r)
  \/ \E r \in Req : CheckinProject(r)
  \/ \E r \in Req : CheckinActive(r)
  \/ \E r \in Req : CheckinInsert(r)
  \/ \E r \in Req, u \in RaceUsers :
       CheckoutReceive(r, u, PointFar[1], PointFar[2], NULL, 1)
  \/ \E r \in Req : CheckoutWorker(r)
  \/ \E r \in Req : CheckoutActive(r)
  \/ \E r \in Req : CheckoutUpdate(r)
  \/ \E r \in Req : QueryFails(r)
  \/ \E r \in Req : Finish(r)
  \/ \E d \in {18} : Tick(d)

Spec == Init /\ [][Next]_vars

\* Requests handled one at a time, with every kind of site and of reported
\* point.
NextGeo ==
  \/ \E u \in {1, 3}, p \in {NULL, 1, 2, 3, 4, 9}, pt \in Points \cup BadPoints :
       CheckinReceive(1, u, p, pt[1], pt[2], NULL, NULL)
  \/ CheckinWorker(1)
  \/ CheckinProject(1)
  \/ CheckinActive(1)
  \/ CheckinInsert(1)
  \/ \E u \in {1, 3}, pt \in {PointFar} \cup BadPoints :
       CheckoutReceive(1, u, pt[1], pt[2], NULL, NULL)
  \/ CheckoutWorker(1)
  \/ CheckoutActive(1)
  \/ CheckoutUpdate(1)
  \/ QueryFails(1)
  \/ Finish(1)
  \/ \E d \in {18} : Tick(d)

SpecGeo == Init /\ [][NextGeo]_vars

\* The steps of the clock of the timing specification: half a hundredth of
\* an hour, one and a half hundredths, and two hours and a half.
TimeSteps == {18, 54, 9000}

\* The scheduledTime of a body: absent, or 18 s after the start.
Schedules == {NULL, 18}

\* Requests of one worker handled one at a time at the sample site, with
\* and without a scheduledTime and notes, while the clock advances.
NextTime ==
  \/ \E sched \in Schedules :
       CheckinReceive(1, 1, 1, PointAtSite[1], PointAtSite[2], NULL, sched)
  \/ CheckinWorker(1)
  \/ CheckinProject(1)
  \/ CheckinActive(1)
  \/ CheckinInsert(1)
  \/ \E pt \in {PointAtSite, PointFar}, notes \in {NULL, 1} :
       CheckoutReceive(1, 1, pt[1], pt[2], NULL, notes)
  \/ CheckoutWorker(1)
  \/ CheckoutActive(1)
  \/ CheckoutUpdate(1)
  \/ QueryFails(1)
  \/ Finish(1)
  \/ \E d \in TimeSteps : Tick(d)

SpecTime == Init /\ [][NextTime]_vars

\* The filters of a listing: a site, a worker, the start and the end of the
\* range of check-in times.
SiteFilters   == {NULL, 1, 2}
WorkerFilters == {NULL, 11, 12}
DateFilters   == {NULL, 18}

\* Two workers check in and out at two sites, one request at a time, while
\* the clock advances; the ledger is listed and the active shift is asked
\* for.
NextList ==
  \/ \E u \in {1, 2}, p \in {1, 2} :
       CheckinReceive(1, u, p, PointAtSite[1], PointAtSite[2], NULL, NULL)
  \/ CheckinWorker(1)
  \/ CheckinProject(1)
  \/ CheckinActive(1)
  \/ CheckinInsert(1)
  \/ \E u \in {1, 2} :
       CheckoutReceive(1, u, PointAtSite[1], PointAtSite[2], NULL, NULL)
  \/ CheckoutWorker(1)
  \/ CheckoutActive(1)
  \/ CheckoutUpdate(1)
  \/ \E fp \in SiteFilters, fw \in WorkerFilters, sd, ed \in DateFilters :
       ListReceive(1, fp, fw, sd, ed)
  \/ ListQuery(1)
  \/ \E u \in Users : ActiveReceive(1, u)
  \/ ActiveWorker(1)
  \/ ActiveQuery(1)
  \/ ReadFails(1)
  \/ QueryFails(1)
  \/ Finish(1)
  \/ \E d \in {18, 54} : Tick(d)

SpecList == Init /\ [][NextList]_vars

\* One worker checks in and out, one request at a time, at sites that share
\* the sample coordinate and whose stored radius is 50 m, unset, 500 m and
\* 1 m, from every reported point.
NextSite ==
  \/ \E p \in {1, 3, 5, 6}, pt \in Points :
       CheckinReceive(1, 1, p, pt[1], pt[2], NULL, NULL)
  \/ CheckinWorker(1)
  \/ CheckinProject(1)
  \/ CheckinActive(1)
  \/ CheckinInsert(1)
  \/ CheckoutReceive(1, 1, PointAtSite[1], PointAtSite[2], NULL, NULL)
  \/ CheckoutWorker(1)
  \/ CheckoutActive(1)
  \/ CheckoutUpdate(1)
  \/ QueryFails(1)
  \/ Finish(1)
  \/ \E d \in {18} : Tick(d)

SpecSite == Init /\ [][NextSite]_vars

\* Points north-east and south-east of the site, 2 km and 600 m away.
PointNorthEast == <<SiteLat + 15000, SiteLng + 15000>>
PointSouthEast == <<SiteLat - 3000, SiteLng + 5000>>

\* The points between which distances are taken.
DistPoints ==
  {PointAtSite, PointAt50, PointFar, PointNorthEast, PointSouthEast}

\* Check-ins of one worker at the sample site, in flight together, each
\* from one of the points; the geofence step takes the distance.
NextDist ==
  \/ \E r \in Req, pt \in DistPoints :
       CheckinReceive(r, 1, 1, pt[1], pt[2], NULL, NULL)
  \/ \E r \in Req : CheckinWorker(r)
  \/ \E r \in Req : CheckinProject(r)
  \/ \E r \in Req : CheckinActive(r)
  \/ \E r \in Req : CheckinInsert(r)
  \/ \E r \in Req : Finish(r)

SpecDist == Init /\ [][NextDist]_vars

\* Points on the equator and on the prime meridian, given as numbers.
PointEquator  == <<0, SiteLng>>
PointMeridian == <<SiteLat, 0>>

\* Reported coordinates within [-90, 90] and [-180, 180].
ValidPoints == {PointAtSite, PointEquator, PointMeridian}

\* The steps of the clock of long shifts: 18 s and 1000 hours.
LongSteps == {18, 3600000}

\* One worker checks in and out at the sample site, one request at a time,
\* every body complete and with a valid coordinate, no query rejected by a
\* lost connection, while the clock advances by up to 1000 hours.
NextValid ==
  \/ \E pt \in ValidPoints :
       CheckinReceive(1, 1, 1, pt[1], pt[2], NULL, NULL)
  \/ CheckinWorker(1)
  \/ CheckinProject(1)
  \/ CheckinActive(1)
  \/ CheckinInsert(1)
  \/ \E pt \in ValidPoints :
       CheckoutReceive(1, 1, pt[1], pt[2], NULL, NULL)
  \/ CheckoutWorker(1)
  \/ CheckoutActive(1)
  \/ CheckoutUpdate(1)
  \/ Finish(1)
  \/ \E d \in LongSteps : Tick(d)

SpecValid == Init /\ [][NextValid]_vars

\* ================================================================ claims
\* The open shifts of worker w in the ledger.
OpenShifts(w) ==
  {i \in 1..Len(checkins) :
     checkins[i].worker_id = w /\ checkins[i].checkout_time = NULL}

Workers == {10 + u : u \in {1, 2}}

\* Slot r took a step that was not the failure of a query.
Answered(r) == req'[r] # req[r] /\ req'[r].status # 500

\* The site of a request has both coordinates registered.
Registered(p) ==
  Projects[p].gps_latitude # NULL /\ Projects[p].gps_longitude # NULL

\* The radius allowed at site p, in metres.
AllowedRadius(p) ==
  IF Projects[p].geofence_radius_meters = NULL THEN 100
  ELSE Projects[p].geofence_radius_meters

\* The distance of the point request q reports from site p, in decimetres.
DistanceTo(q, p) ==
  calculateDistance(q.gpsLat, q.gpsLng,
                    Projects[p].gps_latitude, Projects[p].gps_longitude)

\* C1: in every reachable state each worker has at most one open shift in
\* the ledger.
C1_OneOpenShiftPerWorker ==
  \A w \in Workers : Cardinality(OpenShifts(w)) <= 1

\* C2: two check-ins of the same worker, each of which made its open-shift
\* query before the other inserted, never both return a created shift.
C2_InterleavedCheckinsNotBothCreated ==
  \A r1, r2 \in Req :
    (/\ r1 # r2
     /\ req[r1].kind = "checkin" /\ req[r2].kind = "checkin"
     /\ req[r1].workerId = req[r2].workerId
     /\ req[r1].status = 201
     /\ req[r1].id > req[r2].seen)
    => ~(req[r2].status = 201 /\ req[r2].id > req[r1].seen)

\* C3: a check-in whose open-shift query runs while the worker has an open
\* shift is answered 409 "Already checked in" with the id of an open shift
\* of that worker, and the ledger is left as it was.
C3_SecondCheckinRejected ==
  [][\A r \in Req :
       (/\ req[r].pc = "ci_active"
        /\ OpenShifts(req[r].workerId) # {}
        /\ Answered(r))
       => /\ req'[r].pc = "done"
          /\ req'[r].status = 409
          /\ req'[r].error = "Already checked in"
          /\ req'[r].id \in OpenShifts(req[r].workerId)
          /\ checkins' = checkins]_vars

\* A second check-in was answered 409 with the id of the worker's open shift.
C3_Witness ==
  \E r \in Req :
    /\ req[r].kind = "checkin" /\ req[r].pc = "done" /\ req[r].status = 409
    /\ req[r].id \in OpenShifts(req[r].workerId)

\* C4: a check-out whose open-shift query runs while the worker has no open
\* shift is answered 404 "No active check-in found", and the ledger is left
\* as it was.
C4_CheckoutWithoutOpenShift ==
  [][\A r \in Req :
       (/\ req[r].pc = "co_active"
        /\ OpenShifts(req[r].workerId) = {}
        /\ Answered(r))
       => /\ req'[r].pc = "done"
          /\ req'[r].status = 404
          /\ req'[r].error = "No active check-in found"
          /\ checkins' = checkins]_vars

\* A check-out was refused for a worker all of whose shifts are closed.
C4_Witness ==
  \E r \in Req :
    /\ req[r].kind = "checkout" /\ req[r].pc = "done" /\ req[r].status = 404
    /\ req[r].error = "No active check-in found"
    /\ \E i \in 1..Len(checkins) : checkins[i].worker_id = req[r].workerId
    /\ OpenShifts(req[r].workerId) = {}

\* C5: once a shift is closed, no step changes its checkOutTime, its
\* checkOutCoordinate or its hoursWorked.
C5_ClosedFieldsFrozen ==
  [][\A i \in 1..Len(checkins) :
       checkins[i].checkout_time # NULL
       => /\ i <= Len(checkins')
          /\ checkins'[i].checkout_time = checkins[i].checkout_time
          /\ checkins'[i].checkout_gps_lat = checkins[i].checkout_gps_lat
          /\ checkins'[i].checkout_gps_lng = checkins[i].checkout_gps_lng
          /\ checkins'[i].hours_worked = checkins[i].hours_worked]_vars

\* C6: a closed shift is never open again, and no step removes a shift from
\* the ledger.
C6_ClosedIsTerminal ==
  [][/\ Len(checkins') >= Len(checkins)
     /\ \A i \in 1..Len(checkins) :
          /\ checkins'[i].id = checkins[i].id
          /\ checkins[i].checkout_time # NULL
             => checkins'[i].checkout_time # NULL]_vars

\* A shift is closed and a request that started later has been answered
\* 200 or 201.
C6_Witness ==
  \E i \in 1..Len(checkins), r \in Req :
    /\ checkins[i].checkout_time # NULL
    /\ req[r].pc = "done" /\ req[r].status \in {200, 201}
    /\ \/ req[r].id > i
       \/ req[r].id = i /\ \E r2 \in Req \ {r} :
            req[r2].status = 200 /\ req[r2].id = i

\* C7: of two check-outs that selected the same open shift, at most one is
\* answered with success.
C7_OneCheckoutSucceeds ==
  \A r1, r2 \in Req :
    (/\ r1 # r2
     /\ req[r1].kind = "checkout" /\ req[r2].kind = "checkout"
     /\ req[r1].checkin # NULL
     /\ req[r1].checkin = req[r2].checkin
     /\ req[r1].status = 200)
    => req[r2].status # 200

\* C8: at a site with a registered coordinate, a check-in reported from
\* farther away than the allowed radius is answered 403 with the distance
\* (in whole metres) and the allowed radius, and creates no shift; a check-in
\* is answered 201 only if its distance is at most the radius.
C8_GeofenceViolation ==
  [][\A r \in Req :
       LET q == req[r]
           p == q.projectId
       IN  (q.kind = "checkin" /\ p \in DOMAIN Projects /\ Registered(p))
           => /\ (/\ q.pc = "ci_project"
                  /\ Answered(r)
                  /\ DistanceTo(q, p) > AllowedRadius(p) * 10)
                 => /\ req'[r].pc = "done"
                    /\ req'[r].status = 403
                    /\ req'[r].distance = (DistanceTo(q, p) + 5) \div 10
                    /\ req'[r].maxDistance = AllowedRadius(p)
                    /\ checkins' = checkins
              /\ (q.pc = "ci_insert" /\ req'[r].status = 201)
                 => DistanceTo(q, p) <= AllowedRadius(p) * 10]_vars

\* A check-in about 500 m from the 50 m site was answered 403 with distance
\* 500 and radius 50, and the ledger is empty.
C8_Witness ==
  \E r \in Req :
    /\ req[r].pc = "done" /\ req[r].status = 403
    /\ req[r].projectId = 1
    /\ req[r].distance = 500 /\ req[r].maxDistance = 50
    /\ checkins = <<>>

\* C9: the boundary is inclusive: at a site with a registered coordinate the
\* geofence test rejects a check-in exactly when its distance is strictly
\* greater than the radius; a distance equal to the radius passes.
C9_BoundaryInclusive ==
  [][\A r \in Req :
       LET q == req[r]
           p == q.projectId
       IN  (/\ q.pc = "ci_project"
            /\ p \in DOMAIN Projects /\ Registered(p)
            /\ Answered(r))
           => /\ DistanceTo(q, p) = AllowedRadius(p) * 10
                 => req'[r].pc = "ci_active"
              /\ req'[r].status = 403
                 <=> DistanceTo(q, p) > AllowedRadius(p) * 10]_vars

\* A check-in reported from exactly the radius away has created a shift.
C9_Witness ==
  \E r \in Req :
    /\ req[r].kind = "checkin" /\ req[r].pc = "done" /\ req[r].status = 201
    /\ Registered(req[r].projectId)
    /\ LET row == checkins[req[r].id]
       IN  calculateDistance(row.checkin_gps_lat, row.checkin_gps_lng,
                             Projects[row.project_id].gps_latitude,
                             Projects[row.project_id].gps_longitude)
           = AllowedRadius(row.project_id) * 10

\* C10: at a site that lacks a registered coordinate no check-in is answered
\* 403: the geofence test lets every reported point through.
C10_NoCoordinateNoGeofence ==
  [][\A r \in Req :
       LET q == req[r]
           p == q.projectId
       IN  (q.kind = "checkin" /\ p \in DOMAIN Projects /\ ~Registered(p))
           => /\ req'[r].status # 403
              /\ (q.pc = "ci_project" /\ Answered(r))
                 => req'[r].pc = "ci_active"]_vars

\* A check-in reported about 500 m from the sample site has created a shift
\* at a site without coordinates whose stored radius is 50 m.
C10_Witness ==
  \E r \in Req :
    /\ req[r].kind = "checkin" /\ req[r].pc = "done" /\ req[r].status = 201
    /\ checkins[req[r].id].project_id = 2
    /\ <<checkins[req[r].id].checkin_gps_lat,
         checkins[req[r].id].checkin_gps_lng>> = PointFar

\* C11: the is_late flag a successful check-in stores is TRUE exactly when
\* the body carried a scheduledTime and the handler's reading of the clock
\* was strictly after it; it is FALSE when there was none and when the
\* clock was at or before it.
C11_IsLateStrictlyAfter ==
  [][\A r \in Req :
       /\ (req[r].pc = "ci_active" /\ req'[r].pc = "ci_insert")
          => (req'[r].isLate
              <=> (/\ req[r].scheduledTime # NULL
                   /\ now > req[r].scheduledTime))
       /\ (req[r].pc = "ci_insert" /\ req'[r].status = 201)
          => /\ Len(checkins') = Len(checkins) + 1
             /\ checkins'[Len(checkins')].is_late = req[r].isLate]_vars

\* A check-in with a scheduledTime of 18 s answered 201 at 54 s has stored
\* a late shift, after an earlier shift of the ledger that was not late.
C11_Witness ==
  \E r \in Req :
    /\ req[r].kind = "checkin" /\ req[r].pc = "done" /\ req[r].status = 201
    /\ req[r].id > 1
    /\ checkins[req[r].id].is_late /\ checkins[req[r].id].checkin_time = 54
    /\ ~checkins[1].is_late

\* C12: what a check-in wrote into a shift (its id, worker, site, check-in
\* time, check-in point and lateness flag) is never changed by any later
\* step, be it a check-out or another check-in, and no shift is removed.
C12_CheckinFieldsFrozen ==
  [][/\ Len(checkins') >= Len(checkins)
     /\ \A i \in 1..Len(checkins) :
          /\ checkins'[i].id = checkins[i].id
          /\ checkins'[i].worker_id = checkins[i].worker_id
          /\ checkins'[i].project_id = checkins[i].project_id
          /\ checkins'[i].checkin_time = checkins[i].checkin_time
          /\ checkins'[i].checkin_gps_lat = checkins[i].checkin_gps_lat
          /\ checkins'[i].checkin_gps_lng = checkins[i].checkin_gps_lng
          /\ checkins'[i].is_late = checkins[i].is_late]_vars

\* A shift checked in at 50 m from the site at time 0 was checked out from
\* 500 m away after the clock advanced, and a later check-in has added
\* another shift.
C12_Witness ==
  /\ Len(checkins) >= 2
  /\ checkins[1].checkout_time # NULL
  /\ checkins[1].checkout_time > checkins[1].checkin_time
  /\ <<checkins[1].checkin_gps_lat, checkins[1].checkin_gps_lng>> = PointAt50
  /\ <<checkins[1].checkout_gps_lat, checkins[1].checkout_gps_lng>> = PointFar
  /\ checkins[2].checkin_time >= checkins[1].checkout_time

\* C13: the hoursWorked a successful check-out returns and stores is the
\* time from the shift's check-in to the handler's reading of the clock, in
\* hours, rounded half-up to two decimals: 9000 s give 2.50, and 54 s
\* (0.015 h) give 0.02.
C13_HoursRoundedHalfUp ==
  [][\A r \in Req :
       (req[r].pc = "co_update" /\ req'[r].status = 200)
       => LET halfUp == (req[r].elapsed + 18) \div 36
          IN  /\ req'[r].hoursWorked = halfUp
              /\ checkins'[req[r].checkin].hours_worked = halfUp]_vars

\* C14: for every closed shift the stored hours_worked is the stored
\* checkout_time minus the stored checkin_time, in hundredths of an hour, up
\* to the rounding of the last digit: the hours are those of the recorded
\* check-out instant.
C14_HoursMatchStoredTimes ==
  \A i \in 1..Len(checkins) :
    checkins[i].checkout_time # NULL
    => LET stored == checkins[i].checkout_time - checkins[i].checkin_time
           hours  == checkins[i].hours_worked
       IN  hours * 36 - 18 <= stored /\ stored <= hours * 36 + 18

\* C15: check-out is all-or-nothing: a check-out that has found its open
\* shift and whose UPDATE fails is answered 500 "Check-out failed" and
\* leaves the ledger as it was; and no step writes only some of
\* checkout_time, the check-out point and hours_worked.
C15_CheckoutAllOrNothing ==
  [][/\ \A r \in Req :
          (/\ req[r].pc = "co_update"
           /\ req'[r] # req[r]
           /\ req'[r].status # 200)
          => /\ req'[r].pc = "done"
             /\ req'[r].status = 500
             /\ req'[r].error = "Check-out failed"
             /\ checkins' = checkins
     /\ \A i \in 1..Len(checkins) :
          \/ checkins'[i] = checkins[i]
          \/ /\ checkins'[i].checkout_time = now
             /\ checkins'[i].checkout_gps_lat # NULL
             /\ checkins'[i].checkout_gps_lng # NULL
             /\ checkins'[i].hours_worked # NULL
             /\ \E r \in Req : req[r].pc = "co_update"
                               /\ req'[r].status = 200]_vars

\* A check-out that had found the worker's open shift was
\* answered 500, and that shift is still open, without check-out point,
\* hours or notes.
C15_Witness ==
  \E r \in Req :
    /\ req[r].kind = "checkout" /\ req[r].pc = "done"
    /\ req[r].status = 500 /\ req[r].error = "Check-out failed"
    /\ req[r].checkin # NULL
    /\ LET row == checkins[req[r].checkin]
       IN  /\ row.checkout_time = NULL
           /\ row.checkout_gps_lat = NULL /\ row.checkout_gps_lng = NULL
           /\ row.hours_worked = NULL /\ row.notes = NULL

\* C16: check-out has no geofence test: no check-out is answered 403; a
\* check-out whose query finds an open shift goes on to the UPDATE from any
\* reported point, and its UPDATE, when the statement succeeds, is answered
\* 200 and stores that point, however far from the site it is.
C16_CheckoutNoGeofence ==
  [][\A r \in Req :
       req[r].kind = "checkout"
       => /\ req'[r].status # 403
          /\ (/\ req[r].pc = "co_active"
              /\ OpenShifts(req[r].workerId) # {}
              /\ Answered(r))
             => /\ req'[r].pc = "co_update"
                /\ req'[r].checkin \in OpenShifts(req[r].workerId)
          /\ (req[r].pc = "co_update" /\ Answered(r))
             => /\ req'[r].status = 200
                /\ checkins'[req[r].checkin].checkout_gps_lat = req[r].gpsLat
                /\ checkins'[req[r].checkin].checkout_gps_lng = req[r].gpsLng
      ]_vars

\* A check-out was answered 200 for a shift of the 50 m site, reported from
\* a point farther from that site than its radius.
C16_Witness ==
  \E r \in Req :
    /\ req[r].kind = "checkout" /\ req[r].pc = "done" /\ req[r].status = 200
    /\ LET row == checkins[req[r].id]
       IN  /\ row.project_id = 1
           /\ calculateDistance(row.checkout_gps_lat, row.checkout_gps_lng,
                                 Projects[1].gps_latitude,
                                 Projects[1].gps_longitude)
               > AllowedRadius(1) * 10

\* C17: a check-in answered 201 has added exactly one shift to the ledger,
\* open, of the requesting worker at the requested site, and changed no
\* other; a check-in answered 400, 404, 403 or 409, and every step of a
\* check-in before its answer, leaves the ledger as it was.
C17_CheckinAddsOneOrNone ==
  [][\A r \in Req :
       (req'[r] # req[r] /\ req'[r].kind = "checkin")
       => /\ req'[r].status = 201
             => /\ Len(checkins') = Len(checkins) + 1
                /\ SubSeq(checkins', 1, Len(checkins)) = checkins
                /\ LET row == checkins'[Len(checkins')]
                   IN  /\ row.id = req'[r].id
                       /\ row.id = Len(checkins')
                       /\ row.worker_id = req[r].workerId
                       /\ row.project_id = req[r].projectId
                       /\ row.checkout_time = NULL
                       /\ row.hours_worked = NULL
          /\ req'[r].status \in {0, 400, 403, 404, 409}
             => checkins' = checkins]_vars

\* After one check-in created the only shift of the ledger, still open, a
\* further check-in was answered 403.
C17_Witness ==
  \E r \in Req :
    /\ req[r].kind = "checkin" /\ req[r].pc = "done" /\ req[r].status = 403
    /\ Len(checkins) = 1
    /\ checkins[1].checkout_time = NULL

\* C18: a check-in that loses a race (by the time of its INSERT a shift of
\* the same worker, created after this check-in made its open-shift query,
\* is open) is answered 409 "Already checked in" with the id of the
\* winner's shift, and adds no shift; a failing statement aside.
C18_RaceLoserAlreadyCheckedIn ==
  [][\A r \in Req :
       LET won == {i \in OpenShifts(req[r].workerId) : i > req[r].seen}
       IN  (req[r].pc = "ci_insert" /\ won # {} /\ Answered(r))
           => /\ req'[r].pc = "done"
              /\ req'[r].status = 409
              /\ req'[r].error = "Already checked in"
              /\ req'[r].id \in won
              /\ checkins' = checkins]_vars

\* C19: requests of different workers are independent: a step of a request
\* changes no shift of another worker and creates shifts of its own worker
\* only, and what its open-shift query answers depends on the shifts of its
\* own worker alone, whatever the requests of other workers have done: a
\* check-in is answered 409 exactly when its own worker has an open shift,
\* a check-out 404 exactly when its own worker has none.
C19_WorkersIndependent ==
  [][\A r \in Req :
       req'[r] # req[r]
       => LET w == req[r].workerId
          IN  /\ \A i \in 1..Len(checkins) :
                   checkins[i].worker_id # w => checkins'[i] = checkins[i]
              /\ \A i \in (Len(checkins) + 1)..Len(checkins') :
                   checkins'[i].worker_id = w
              /\ (req[r].pc = "ci_active" /\ Answered(r))
                 => /\ req'[r].status = 409 <=> OpenShifts(w) # {}
                    /\ req'[r].status = 409
                       => checkins[req'[r].id].worker_id = w
              /\ (req[r].pc = "co_active" /\ Answered(r))
                 => /\ req'[r].status = 404 <=> OpenShifts(w) = {}
                    /\ req'[r].status # 404
                       => checkins[req'[r].checkin].worker_id = w]_vars

\* One worker's shift was checked out (answered 200) and a check-in of the
\* other worker was answered 201, both in flight together; the other
\* worker's shift, created no later than that check-out, is open.
C19_Witness ==
  \E r1, r2 \in Req :
    /\ req[r1].kind = "checkout" /\ req[r1].pc = "done"
    /\ req[r1].status = 200
    /\ req[r2].kind = "checkin" /\ req[r2].pc = "done"
    /\ req[r2].status = 201
    /\ req[r1].workerId # req[r2].workerId
    /\ req[r2].id > req[r1].checkin
    /\ checkins[req[r2].id].checkin_time
         <= checkins[req[r1].checkin].checkout_time
    /\ checkins[req[r2].id].checkout_time = NULL

\* The control points of a handler between two queries.
InFlight ==
  {"ci_worker", "ci_project", "ci_active", "ci_insert",
   "co_worker", "co_active", "co_update"}

\* The typed outcomes: success, invalid input, not found, geofence
\* violation, already checked in, no active shift, internal fault.
TypedOutcomes ==
  {<<"checkin", 201, "">>,
   <<"checkin", 400,
     "Project ID, GPS latitude, and GPS longitude are required">>,
   <<"checkin", 404, "Worker profile not found">>,
   <<"checkin", 404, "Project not found">>,
   <<"checkin", 403, "Check-in location outside geofence">>,
   <<"checkin", 409, "Already checked in">>,
   <<"checkin", 500, "Check-in failed">>,
   <<"checkout", 200, "">>,
   <<"checkout", 400, "GPS latitude and longitude are required">>,
   <<"checkout", 404, "Worker profile not found">>,
   <<"checkout", 404, "No active check-in found">>,
   <<"checkout", 500, "Check-out failed">>}

\* C20: every step of a request either takes it to its next query or ends
\* it with exactly one of the typed outcomes; an answer, once given, stays
\* as it is until the slot is free again; a failing query ends the request
\* with 500 and the ledger unchanged, and leaves no request without a
\* response.
C20_OneTypedOutcome ==
  [][\A r \in Req :
       /\ req'[r].pc \in InFlight \cup {"idle", "done"}
       /\ req'[r].pc = "done"
          => <<req'[r].kind, req'[r].status, req'[r].error>> \in TypedOutcomes
       /\ req'[r].pc # "done" => req'[r].status = 0
       /\ (req[r].pc = "done" /\ req'[r] # req[r]) => req'[r] = IdleReq
       /\ (req[r].pc \in InFlight /\ req'[r] # req[r])
          => /\ req'[r].pc \in InFlight \cup {"done"}
             /\ req'[r].kind = req[r].kind
             /\ req'[r].status = 500 => checkins' = checkins]_vars

\* A check-in that was not the first request, and whose worker had been
\* found, was answered 500 "Check-in failed".
C20_Witness ==
  \E r \in Req :
    /\ req[r].kind = "checkin" /\ req[r].pc = "done"
    /\ req[r].status = 500 /\ req[r].error = "Check-in failed"
    /\ req[r].workerId # NULL
    /\ issued >= 2

\* C21: the listing answers with shifts in the order of their check-in
\* time, most recent first, none of them twice, each of which satisfies
\* every filter of the query (site, worker, start and end of the range of
\* check-in times, both ends included); and no step of the listing or of
\* the active-shift query changes the ledger.
C21_ListingOrderedFiltered ==
  [][\A r \in Req :
       /\ (req[r].pc = "ls_query" /\ req'[r].status = 200)
          => LET q == req[r]
                 s == req'[r].rows
             IN  /\ \A i \in 1..Len(s) :
                      LET row == checkins[s[i]]
                      IN  /\ s[i] \in 1..Len(checkins)
                          /\ q.fProject # NULL => row.project_id = q.fProject
                          /\ q.fWorker # NULL => row.worker_id = q.fWorker
                          /\ q.startDate # NULL
                             => row.checkin_time >= q.startDate
                          /\ q.endDate # NULL
                             => row.checkin_time <= q.endDate
                 /\ \A i, j \in 1..Len(s) :
                      i < j => /\ s[i] # s[j]
                               /\ checkins[s[i]].checkin_time
                                    >= checkins[s[j]].checkin_time
       /\ (req'[r] # req[r] /\ req'[r].kind \in {"list", "active"})
          => checkins' = checkins]_vars

\* A listing filtered by site and by the start of the range was answered
\* with one shift, out of a ledger of two shifts checked in at different
\* times.
C21_Witness ==
  \E r \in Req :
    /\ req[r].kind = "list" /\ req[r].pc = "done" /\ req[r].status = 200
    /\ Len(req[r].rows) = 1
    /\ Len(checkins) = 2
    /\ checkins[1].checkin_time < checkins[2].checkin_time
    /\ checkins[req[r].rows[1]].checkin_time >= 18

C23_AtSiteAlwaysPasses ==
  [][\A r \in Req :
       LET q == req[r]
           p == q.projectId
       IN  (/\ q.kind = "checkin"
            /\ p \in DOMAIN Projects /\ Registered(p)
            /\ q.gpsLat = Projects[p].gps_latitude
            /\ q.gpsLng = Projects[p].gps_longitude)
           => /\ calculateDistance(q.gpsLat, q.gpsLng, q.gpsLat, q.gpsLng) = 0
              /\ DistanceTo(q, p) = 0
              /\ (q.pc = "ci_project" /\ Answered(r))
                 => req'[r].pc = "ci_active"
              /\ (/\ q.pc = "ci_active" /\ Answered(r)
                  /\ OpenShifts(q.workerId) = {})
                 => req'[r].pc = "ci_insert"
              /\ (/\ q.pc = "ci_insert" /\ Answered(r)
                  /\ q.scheduledTime = NULL)
                 => /\ req'[r].status = 201
                    /\ checkins'[req'[r].id].is_late = FALSE
                    /\ checkins'[req'[r].id].checkout_time = NULL]_vars

\* A check-in reported from the very coordinate of the site whose radius is
\* 1 m has created a shift that is not late.
C23_Witness ==
  \E r \in Req :
    /\ req[r].kind = "checkin" /\ req[r].pc = "done" /\ req[r].status = 201
    /\ LET row == checkins[req[r].id]
       IN  /\ Projects[row.project_id].geofence_radius_meters = 1
           /\ row.checkin_gps_lat = Projects[row.project_id].gps_latitude
           /\ row.checkin_gps_lng = Projects[row.project_id].gps_longitude
           /\ ~row.is_late

\* The points the requests in flight report, and the site's.
PointsInFlight ==
  {<<req[r].gpsLat, req[r].gpsLng>> : r \in {x \in Req : req[x].gpsLat # NULL}}
  \cup {<<SiteLat, SiteLng>>}

\* C24: calculateDistance is symmetric and never negative: for any two
\* points a and b, calculateDistance(a, b) = calculateDistance(b, a) >= 0.
C24_DistanceSymmetric ==
  \A a, b \in PointsInFlight :
    /\ calculateDistance(a[1], a[2], b[1], b[2])
         = calculateDistance(b[1], b[2], a[1], a[2])
    /\ calculateDistance(a[1], a[2], b[1], b[2]) >= 0

\* Two check-ins in flight report points of different latitude and
\* longitude, more than 2 km apart, and the geofence step has taken the
\* distance of one of them.
C24_Witness ==
  \E r1, r2 \in Req :
    /\ req[r1].pc = "ci_active" /\ req[r2].pc = "ci_project"
    /\ req[r1].gpsLat # req[r2].gpsLat
    /\ req[r1].gpsLng # req[r2].gpsLng
    /\ calculateDistance(req[r1].gpsLat, req[r1].gpsLng,
                         req[r2].gpsLat, req[r2].gpsLng) > 20000

\* C25: a check-in makes its tests in a fixed order and the first that
\* fails decides: the worker (404 "Worker profile not found" whatever the
\* site and the point), then the site (404 "Project not found" whatever
\* the point and the ledger, which is left alone), then the geofence (403
\* even when the worker has an open shift), then the open shift: 409 is
\* given by the open-shift step only.
C25_ChecksInOrder ==
  [][\A r \in Req :
       LET q == req[r]
           p == q.projectId
       IN  (q.kind = "checkin" /\ Answered(r))
           => /\ q.pc = "ci_worker"
                 => IF q.user \in {1, 2}
                    THEN req'[r].pc = "ci_project"
                    ELSE /\ req'[r].status = 404
                         /\ req'[r].error = "Worker profile not found"
              /\ q.pc = "ci_project"
                 => IF p \notin DOMAIN Projects
                    THEN /\ req'[r].status = 404
                         /\ req'[r].error = "Project not found"
                         /\ checkins' = checkins
                    ELSE IF Registered(p)
                            /\ DistanceTo(q, p) > AllowedRadius(p) * 10
                    THEN req'[r].status = 403
                    ELSE req'[r].pc = "ci_active"
              /\ req'[r].status = 409 => q.pc = "ci_active"
              /\ req'[r].status = 403 => q.pc = "ci_project"
              /\ req'[r].error = "Project not found" => q.pc = "ci_project"
              /\ req'[r].error = "Worker profile not found"
                 => q.pc = "ci_worker"]_vars

\* A check-in of a worker who has an open shift, reported from outside the
\* geofence, was answered 403.
C25_Witness ==
  \E r \in Req :
    /\ req[r].kind = "checkin" /\ req[r].pc = "done" /\ req[r].status = 403
    /\ req[r].workerId # NULL
    /\ OpenShifts(req[r].workerId) # {}

\* C26: a check-out answered 200 leaves its worker without an open shift
\* (so that, until a check-in of that worker is answered 201, the
\* active-shift query finds none and a further check-out is answered 404).
C26_NoOpenShiftAfterCheckout ==
  [][\A r \in Req :
       (req[r].pc = "co_update" /\ req'[r].status = 200)
       => OpenShifts(req[r].workerId)' = {}]_vars

C28_ReportedDistanceExceedsRadius ==
  \A r \in Req :
    (req[r].kind = "checkin" /\ req[r].pc = "done" /\ req[r].status = 403)
    => req[r].distance > req[r].maxDistance

\* C29: a check-in or check-out whose body has every required field, with a
\* latitude within [-90, 90] and a longitude within [-180, 180] (0 among
\* them), is never answered 400.
C29_ValidCoordinateAccepted ==
  \A r \in Req :
    (req[r].kind \in {"checkin", "checkout"} /\ req[r].pc = "done")
    => req[r].status # 400

\* C30: an open shift can always be closed: the UPDATE of a check-out that
\* has found the worker's open shift is answered 200, however long the
\* shift has been open.
C30_OpenShiftCanBeClosed ==
  [][\A r \in Req :
       (req[r].pc = "co_update" /\ req'[r] # req[r])
       => /\ req'[r].status = 200
          /\ checkins'[req[r].checkin].checkout_time # NULL]_vars
====
